---- MODULE Spec2Model ----
(***************************************************************************)
(* A model of src/app.py: the invoice extraction service.                  *)
(*                                                                         *)
(*   parse_json       the Response Parser (tokens of the model's reply)    *)
(*   clean_empty      the Field Normalizer                                 *)
(*   process_image    the Item Extractor                                   *)
(*   upload_image     the Batch Orchestrator, one action per step          *)
(*   simulate_progress, get_progress   the Progress Tracker                *)
(***************************************************************************)
EXTENDS Integers, Sequences, FiniteSets, TLC

(***************************************************************************)
(* Python values.  Every value is a record of one shape, so that any two   *)
(* values can be compared: t is the type, s a string's text (a sequence of *)
(* characters, or of runs of characters), n a number (or a bool: 1, 0), kv *)
(* the entries of a dict (key k, value v) or of a list (k is "").  A dict  *)
(* keeps its keys in insertion order.                                      *)
(***************************************************************************)
PyNone == [t |-> "null", s |-> <<>>, n |-> 0, kv |-> <<>>]

PyStr(x) == [t |-> "str", s |-> x, n |-> 0, kv |-> <<>>]

PyNum(x) == [t |-> "num", s |-> <<>>, n |-> x, kv |-> <<>>]

PyBool(b) == [t |-> "bool", s |-> <<>>, n |-> IF b THEN 1 ELSE 0, kv |-> <<>>]

PyList(xs) == [t |-> "list", s |-> <<>>, n |-> 0, kv |-> xs]

PyDict(es) == [t |-> "dict", s |-> <<>>, n |-> 0, kv |-> es]

Entry(key, val) == [k |-> key, v |-> val]

Item(val) == Entry("", val)

\* d[key], or None where d has no such key.
GetKey(d, key) ==
    IF \E i \in 1..Len(d.kv) : d.kv[i].k = key
    THEN d.kv[CHOOSE i \in 1..Len(d.kv) : d.kv[i].k = key].v
    ELSE PyNone

HasKey(d, key) == d.t = "dict" /\ \E i \in 1..Len(d.kv) : d.kv[i].k = key

\* d[key] = val: the key keeps its place if d has it, and is added last if not.
SetKey(d, key, val) ==
    IF \E i \in 1..Len(d.kv) : d.kv[i].k = key
    THEN PyDict([i \in 1..Len(d.kv) |->
                    IF d.kv[i].k = key THEN Entry(key, val) ELSE d.kv[i]])
    ELSE PyDict(Append(d.kv, Entry(key, val)))

\* Python's truth value of v (if data:, if result:, if not files:).
Truthy(v) ==
    CASE v.t = "null" -> FALSE
      [] v.t = "str"  -> v.s # <<>>
      [] v.t = "num"  -> v.n # 0
      [] v.t = "bool" -> v.n # 0
      [] OTHER        -> v.kv # <<>>

(***************************************************************************)
(* The Field Normalizer, clean_empty.                                      *)
(***************************************************************************)
\* v in ("", None, [], {}, 0): Python's == makes 0 equal to False as well.
InEmptyTuple(v) ==
    \/ v.t = "str" /\ v.s = <<>>
    \/ v.t = "null"
    \/ v.t = "list" /\ v.kv = <<>>
    \/ v.t = "dict" /\ v.kv = <<>>
    \/ v.t = "num" /\ v.n = 0
    \/ v.t = "bool" /\ v.n = 0

\* The entries the comprehension keeps: the test reads the value as it is in
\* the input, before the recursive call cleans it.
KeptEntries(es) == SelectSeq(es, LAMBDA e : ~InEmptyTuple(e.v))

RECURSIVE clean_empty(_)
clean_empty(d) ==
    IF d.t \in {"dict", "list"}
    THEN LET kept == KeptEntries(d.kv)
         IN  [d EXCEPT !.kv = [i \in 1..Len(kept) |->
                                  Entry(kept[i].k, clean_empty(kept[i].v))]]
    ELSE d

(***************************************************************************)
(* The Response Parser, parse_json.  A reply is a sequence of tokens: the  *)
(* fence markers, JSON's punctuation, string and number literals, the      *)
(* words null, true and false, white space, and prose.                     *)
(***************************************************************************)
\* A call returns a value or raises: exc is the exception's message, "" when
\* the call returned ret.
Returned(val) == [exc |-> "", ret |-> val]

Raised(m) == [exc |-> m, ret |-> PyNone]

\* The two fence markers: three backquotes followed by json, and three
\* backquotes alone (written with apostrophes here).
FenceJson == "'''json"

Fence == "'''"

Space == " "

\* The string literals a reply may hold, with the text each decodes to.
StrTokens == {"\"\"", "\"A1\"", "\"invoice_no\"", "\"subtotal\"", "\"vendor\"",
              "\"name\"", "\"total\""}

StrOf(tok) ==
    CASE tok = "\"\""           -> ""
      [] tok = "\"A1\""         -> "A1"
      [] tok = "\"invoice_no\"" -> "invoice_no"
      [] tok = "\"subtotal\""   -> "subtotal"
      [] tok = "\"vendor\""     -> "vendor"
      [] tok = "\"name\""       -> "name"
      [] tok = "\"total\""      -> "total"

\* A string literal written character by character: a double quote, the
\* characters (braces and fences among them), and a double quote.
Quote == "\""

\* The index of the first double quote from i on, 0 if there is none.
RECURSIVE NextQuote(_, _)
NextQuote(toks, i) ==
    IF i > Len(toks) THEN 0
    ELSE IF toks[i] = Quote THEN i
    ELSE NextQuote(toks, i + 1)

\* The text of a decoded string literal: the empty string has no characters.
Text(x) == IF x = "" THEN <<>> ELSE <<x>>

\* The number literals a reply may hold, with their values.
NumTokens == {"0", "7"}

NumOf(tok) == CASE tok = "0" -> 0 [] tok = "7" -> 7

\* "'''json" in text
HasFenceJson(text) == \E i \in 1..Len(text) : text[i] = FenceJson

\* The first index from i on that holds no white space (\s*), Len(text) + 1
\* if there is none.
RECURSIVE SkipSpace(_, _)
SkipSpace(text, i) ==
    IF i <= Len(text) /\ text[i] = Space THEN SkipSpace(text, i + 1) ELSE i

\* \s*''' at i: the closing fence, which the first characters of a '''json
\* marker match as well.
ClosesAt(text, i) ==
    LET j == SkipSpace(text, i)
    IN  j <= Len(text) /\ text[j] \in {Fence, FenceJson}

\* re.search(r"'''json\s*(\{.*?\})\s*'''", text, re.DOTALL) tried at the
\* marker at p: group 1 as <<first, last>>, or <<0, 0>> without a match.
\* .*? stops at the first } that the closing fence follows.
FencedAt(text, p) ==
    LET q    == SkipSpace(text, p + 1)
        ends == {e \in (q + 1)..Len(text) :
                    text[e] = "}" /\ ClosesAt(text, e + 1)}
    IN  IF text[p] = FenceJson /\ q <= Len(text) /\ text[q] = "{" /\ ends # {}
        THEN <<q, CHOOSE e \in ends : \A f \in ends : e <= f>>
        ELSE <<0, 0>>

\* The leftmost marker at which the pattern matches decides the match.
FencedMatch(text) ==
    LET starts == {p \in 1..Len(text) : FencedAt(text, p) # <<0, 0>>}
    IN  IF starts = {} THEN <<0, 0>>
        ELSE FencedAt(text, CHOOSE p \in starts : \A q \in starts : p <= q)

\* re.search(r"\{.*\}", text, re.DOTALL): group 0 runs from the first { to
\* the last } of the text; no match unless a } follows the first {.
GreedyMatch(text) ==
    LET opens  == {i \in 1..Len(text) : text[i] = "{"}
        first  == CHOOSE i \in opens : \A j \in opens : i <= j
        closes == {i \in 1..Len(text) : text[i] = "}" /\ i > first}
    IN  IF opens = {} \/ closes = {} THEN <<0, 0>>
        ELSE <<first, CHOOSE i \in closes : \A j \in closes : i >= j>>

\* json.loads: the result of decoding one value at index i of toks, which
\* holds no white space: ok, the value, and the index after it.
Decoded(val, next) == [ok |-> TRUE, v |-> val, at |-> next]

DecodeError == [ok |-> FALSE, v |-> PyNone, at |-> 0]

RECURSIVE DecodeValue(_, _)
RECURSIVE DecodeMembers(_, _, _)
RECURSIVE DecodeElements(_, _, _)
DecodeValue(toks, i) ==
    IF i > Len(toks) THEN DecodeError
    ELSE CASE toks[i] = "{" ->
                IF i + 1 <= Len(toks) /\ toks[i + 1] = "}"
                THEN Decoded(PyDict(<<>>), i + 2)
                ELSE DecodeMembers(toks, i + 1, PyDict(<<>>))
           [] toks[i] = "[" ->
                IF i + 1 <= Len(toks) /\ toks[i + 1] = "]"
                THEN Decoded(PyList(<<>>), i + 2)
                ELSE DecodeElements(toks, i + 1, <<>>)
           [] toks[i] \in StrTokens -> Decoded(PyStr(Text(StrOf(toks[i]))), i + 1)
           [] toks[i] = Quote ->
                LET j == NextQuote(toks, i + 1)
                IN  IF j = 0 THEN DecodeError
                    ELSE Decoded(PyStr(SubSeq(toks, i + 1, j - 1)), j + 1)
           [] toks[i] \in NumTokens -> Decoded(PyNum(NumOf(toks[i])), i + 1)
           [] toks[i] = "null"  -> Decoded(PyNone, i + 1)
           [] toks[i] = "true"  -> Decoded(PyBool(TRUE), i + 1)
           [] toks[i] = "false" -> Decoded(PyBool(FALSE), i + 1)
           [] OTHER -> DecodeError

\* "key" : value, then a comma and the next member, or the closing brace.  A
\* key met again keeps its place and takes the later value.
DecodeMembers(toks, i, acc) ==
    IF i + 1 > Len(toks) \/ toks[i] \notin StrTokens \/ toks[i + 1] # ":"
    THEN DecodeError
    ELSE LET val == DecodeValue(toks, i + 2)
             obj == SetKey(acc, StrOf(toks[i]), val.v)
         IN  IF ~val.ok \/ val.at > Len(toks) THEN DecodeError
             ELSE IF toks[val.at] = "}" THEN Decoded(obj, val.at + 1)
             ELSE IF toks[val.at] = "," THEN DecodeMembers(toks, val.at + 1, obj)
             ELSE DecodeError

DecodeElements(toks, i, acc) ==
    LET val == DecodeValue(toks, i)
        xs  == Append(acc, Item(val.v))
    IN  IF ~val.ok \/ val.at > Len(toks) THEN DecodeError
        ELSE IF toks[val.at] = "]" THEN Decoded(PyList(xs), val.at + 1)
        ELSE IF toks[val.at] = "," THEN DecodeElements(toks, val.at + 1, xs)
        ELSE DecodeError

\* The white space between the tokens of a span, dropped; white space
\* within a string literal stays.
RECURSIVE Unspaced(_, _)
Unspaced(span, inside) ==
    IF span = <<>> THEN <<>>
    ELSE IF Head(span) = Space /\ ~inside THEN Unspaced(Tail(span), inside)
    ELSE <<Head(span)>>
             \o Unspaced(Tail(span), IF Head(span) = Quote THEN ~inside ELSE inside)

\* json.loads(span): the whole span is one value, white space aside; a
\* decode error is the exception parse_json catches.
json_loads(span) ==
    LET toks == Unspaced(span, FALSE)
        val  == DecodeValue(toks, 1)
    IN  IF val.ok /\ val.at = Len(toks) + 1 THEN val ELSE DecodeError

JSONDecodeError == "JSONDecodeError"

\* The try block of parse_json: None without a match, else json.loads of
\* the group, which raises on a span that does not decode.
parse_try(text) ==
    LET m == IF HasFenceJson(text) THEN FencedMatch(text) ELSE GreedyMatch(text)
    IN  IF m = <<0, 0>> THEN Returned(PyNone)
        ELSE LET val == json_loads(SubSeq(text, m[1], m[2]))
             IN  IF val.ok THEN Returned(val.v) ELSE Raised(JSONDecodeError)

\* parse_json without its except clause.
parse_json_uncaught(text) == parse_try(text)

\* parse_json(text): except Exception returns None for whatever the try
\* block raised.
parse_json(text) ==
    LET out == parse_try(text)
    IN  IF out.exc # "" THEN Returned(PyNone) ELSE out

(***************************************************************************)
(* Upload items.  A file's bytes are known to the program only by what the *)
(* libraries make of them, so bytes are a record of those answers: the     *)
(* sniffed MIME type, the remote model's reply to them, and their reading  *)
(* as a zip archive.  A name is a sequence of characters.                  *)
(***************************************************************************)
\* str.lower(), on the letters the names below use.
LowerChar(c) ==
    CASE c = "A" -> "a" [] c = "B" -> "b" [] c = "E" -> "e" [] c = "G" -> "g"
      [] c = "I" -> "i" [] c = "N" -> "n" [] c = "P" -> "p" [] c = "Z" -> "z"
      [] OTHER -> c

Lower(name) == [i \in 1..Len(name) |-> LowerChar(name[i])]

\* str.endswith
EndsWith(name, suffix) ==
    /\ Len(name) >= Len(suffix)
    /\ SubSeq(name, Len(name) - Len(suffix) + 1, Len(name)) = suffix

DotZip == <<".", "z", "i", "p">>

\* ZipInfo.is_dir(): the member's name ends in a slash.
is_dir(name) == EndsWith(name, <<"/">>)

\* A remote call that returns, with the reply it returns (one of the texts
\* of ReplyText), and one that raises.
Replies(reply) == [raises |-> FALSE, reply |-> reply, msg |-> ""]

Raises(m) == [raises |-> TRUE, reply |-> "", msg |-> m]

RemoteMsg == "429 quota exceeded"

BadZipMsg == "File is not a zip file"

\* Bytes that are no archive, and the bytes of an archive with its members.
NotZip == [bad |-> TRUE, members |-> <<>>]

ZipOf(members) == [bad |-> FALSE, members |-> members]

Bytes(mime, model, zip) == [mime |-> mime, model |-> model, zip |-> zip]

TextBytes == Bytes(<<"text", "plain">>, Raises(RemoteMsg), NotZip)

ImageBytes(model) == Bytes(<<"image", "png">>, model, NotZip)

ZipBytes(members) == Bytes(<<"application", "zip">>, Raises(RemoteMsg), ZipOf(members))

File(name, data) == [filename |-> name, data |-> data]

(***************************************************************************)
(* The Item Extractor, process_image.  A call returns a value or raises:   *)
(* exc is the exception's message, "" when the call returned ret.          *)
(***************************************************************************)
\* response.text, for each reply the remote model gives here: a fenced
\* object with a zero field, an object without fields, and no JSON at all.
GoodReply ==
    <<FenceJson, Space, "{", "\"invoice_no\"", ":", "\"A1\"", ",",
      "\"subtotal\"", ":", "0", "}", Space, Fence>>

EmptyReply == <<"{", "}">>

ProseReply == <<"Sorry", Space, "unreadable">>

ReplyText(reply) ==
    CASE reply = "good"  -> GoodReply
      [] reply = "empty" -> EmptyReply
      [] reply = "prose" -> ProseReply

\* datetime.datetime.now(datetime.timezone.utc).isoformat()
NowIso == <<"2024-05-01T10:00:00+00:00">>

\* An extractor without the MIME gate.
IsImageUnchecked(mime) == TRUE

\* mime_type.startswith("image/")
IsImage(mime) == mime[1] = "image"

\* if data:: only a parsed object with a field is stamped and cleaned;
\* None and the empty object are returned as they are.
Stamped(data) ==
    IF Truthy(data)
    THEN clean_empty(SetKey(data, "timestamp", PyStr(NowIso)))
    ELSE data

process_image(image_data) ==
    IF ~IsImage(image_data.mime) THEN Returned(PyNone)
    ELSE IF image_data.model.raises THEN Raised(image_data.model.msg)
    ELSE LET parsed_data == parse_json(ReplyText(image_data.model.reply))
         IN  IF parsed_data.exc # "" THEN Raised(parsed_data.exc)
             ELSE Returned(Stamped(parsed_data.ret))

(***************************************************************************)
(* The server: the shared counter and the /upload requests, with the       *)
(* advance thread each starts.                                             *)
(***************************************************************************)
\* range(1, 101): the advance thread writes 1..Steps.
Steps == 100

\* The /upload requests a run holds.
MaxUploads == 2

\* The plain files and archive members one request carries, an archive
\* counting as one more.
MaxItems == 3

Reqs == 1..MaxUploads

VARIABLES
    progress,   \* the global progress
    pc,         \* pc[r]: where request r's upload_image is
    files,      \* files[r]: request.files.getlist('image')
    fi,         \* fi[r]: the file the for loop is at
    zi,         \* zi[r]: the member the inner loop is at, 0 outside an archive
    results,    \* results[r]
    resp,       \* resp[r]: the response returned, NoResp before
    th,         \* th[r]: request r's progress_thread: its state and its i
    calls,      \* calls[r]: the process_image calls made so far
    remote,     \* remote[r]: the generate_content calls made so far
    val,        \* the value under clean_empty
    cleaned,    \* how often clean_empty was applied to it
    text,       \* the reply text under parse_json
    parsed      \* what parse_json made of it

vars == <<progress, pc, files, fi, zi, results, resp, th, calls, remote, val,
          cleaned, text, parsed>>

\* The variables of the functions taken on their own.
pureVars == <<val, cleaned, text, parsed>>

reqVars == <<pc, files, fi, zi, results, resp, calls, remote>>

NoResp == [status |-> 0, error |-> <<>>, invoices |-> <<>>]

\* jsonify({"error": ...}), 400 or 500, and jsonify({"invoices": results}).
ErrorBody(st, message) == [status |-> st, error |-> message, invoices |-> <<>>]

NoFilesResponse == ErrorBody(400, <<"No files uploaded">>)

NoValidResponse == ErrorBody(400, <<"No valid images found to process">>)

Invoices(list) == [status |-> 200, error |-> <<>>, invoices |-> list]

\* A handler that hands back what it had extracted when the error came.
ExceptResponsePartial(r, message) ==
    [status |-> 500, error |-> <<"Invoice processing failed: ", message>>,
     invoices |-> results[r]]

\* The except clause: whatever was raised, the response is the message.
ExceptResponse(r, message) ==
    ErrorBody(500, <<"Invoice processing failed: ", message>>)

\* A handler that does not test for an empty upload.
NoFilesUnchecked(list) == FALSE

\* if not files:
NoFiles(list) == list = <<>>

\* results.insert(0, result) in place of results.append(result).
CollectedFirst(list, result, filename) ==
    IF Truthy(result)
    THEN <<SetKey(result, "filename", PyStr(filename))>> \o list
    ELSE list

\* A loop that appends whatever process_image returned, None included.
CollectedAlways(list, result, filename) ==
    Append(list, IF Truthy(result)
                 THEN SetKey(result, "filename", PyStr(filename))
                 ELSE result)

\* if result: result["filename"] = filename; results.append(result)
Collected(list, result, filename) ==
    IF Truthy(result)
    THEN Append(list, SetKey(result, "filename", PyStr(filename)))
    ELSE list

\* A handler that returns the invoices without looking at the list.
FinalResponseUnchecked(list) == Invoices(list)

\* if not results: 400, else the invoices.
FinalResponse(list) ==
    IF list = <<>> THEN NoValidResponse ELSE Invoices(list)

\* A check of the name as uploaded, without lower().
IsZipNameExact(name) == EndsWith(name, DotZip)

\* filename.endswith('.zip'), filename being file.filename.lower()
IsZipName(name) == EndsWith(Lower(name), DotZip)

\* The position after file f's member z (z = 0: after a plain file, or on
\* opening an archive): the next member if f is an archive that has one,
\* else the next file.
After(list, f, z) ==
    IF IsZipName(list[f].filename) /\ z < Len(list[f].data.zip.members)
    THEN <<f, z + 1>>
    ELSE <<f + 1, 0>>

Unstarted == [st |-> "unstarted", i |-> 0]

Alive(r) == th[r].st = "running"

InFlight(r) == pc[r] \notin {"idle", "done"}

(***************************************************************************)
(* The requests a run may hold.                                            *)
(***************************************************************************)
ReplyNames == {"good", "empty", "prose"}

PlainData ==
    {TextBytes, ImageBytes(Raises(RemoteMsg))}
        \cup {ImageBytes(Replies(reply)) : reply \in ReplyNames}

PlainName == <<"A", ".", "P", "N", "G">>

ZipName == <<"B", ".", "Z", "i", "p">>

MemberNames == {<<"E", ".", "j", "p", "g">>, <<"f", ".", "p", "n", "g">>}

DirName == <<"d", "/">>

Members ==
    {File(DirName, TextBytes)}
        \cup {File(name, data) : name \in MemberNames, data \in PlainData}

RECURSIVE SeqsOfLen(_, _)
SeqsOfLen(S, n) ==
    IF n = 0 THEN {<<>>}
    ELSE {Append(q, x) : q \in SeqsOfLen(S, n - 1), x \in S}

\* The bytes of an archive, uploaded under a name that is not in .zip.
MisnamedZip ==
    File(PlainName,
         ZipBytes(<<File(<<"E", ".", "j", "p", "g">>, ImageBytes(Replies("good")))>>))

\* The files that count w items: a plain file, a file named as an archive
\* that is none, an archive under a plain name, and an archive of w - 1
\* members.
FilesOfWeight(w) ==
    {File(ZipName, ZipBytes(ms)) : ms \in SeqsOfLen(Members, w - 1)}
        \cup (IF w = 1
              THEN {File(PlainName, data) : data \in PlainData}
                       \cup {File(ZipName, TextBytes), MisnamedZip}
              ELSE {})

\* request.files.getlist('image'): the batches of at most w items.
RECURSIVE BatchesUpTo(_)
BatchesUpTo(w) ==
    {<<>>} \cup UNION {
        {<<f>> \o rest : f \in FilesOfWeight(k), rest \in BatchesUpTo(w - k)}
            : k \in 1..w}

Batches == BatchesUpTo(MaxItems)

\* No file, one image the model reads, one image the model call fails on.
SmallBatches ==
    {<<>>,
     <<File(PlainName, ImageBytes(Replies("good")))>>,
     <<File(PlainName, ImageBytes(Raises(RemoteMsg)))>>}

(***************************************************************************)
(* upload_image, step by step.                                             *)
(***************************************************************************)
\* The request arrives with its files and the handler resets the counter
\* (progress = 0).  With alone, no other upload is in flight.
Reset(r, batches, alone) ==
    /\ pc[r] = "idle"
    /\ \A q \in 1..(r - 1) : pc[q] # "idle"
    /\ alone => \A q \in Reqs : ~InFlight(q)
    /\ \E b \in batches : files' = [files EXCEPT ![r] = b]
    /\ progress' = 0
    /\ pc' = [pc EXCEPT ![r] = "check"]
    /\ UNCHANGED <<fi, zi, results, resp, th, calls, remote, pureVars>>

\* if not files: 400; else results = [] and progress_thread.start().
Begin(r) ==
    /\ pc[r] = "check"
    /\ IF NoFiles(files[r])
       THEN /\ resp' = [resp EXCEPT ![r] = NoFilesResponse]
            /\ pc' = [pc EXCEPT ![r] = "done"]
            /\ UNCHANGED <<fi, results, th>>
       ELSE /\ results' = [results EXCEPT ![r] = <<>>]
            /\ th' = [th EXCEPT ![r] = [st |-> "running", i |-> 0]]
            /\ fi' = [fi EXCEPT ![r] = 1]
            /\ pc' = [pc EXCEPT ![r] = "loop"]
            /\ UNCHANGED resp
    /\ UNCHANGED <<progress, files, zi, calls, remote, pureVars>>

\* An exception leaves the try block for the except clause: the response is
\* returned at once, and progress_thread is not joined.
Fail(r, message) ==
    /\ resp' = [resp EXCEPT ![r] = ExceptResponse(r, message)]
    /\ pc' = [pc EXCEPT ![r] = "done"]
    /\ UNCHANGED <<fi, zi, results>>

MoveTo(r, pos) ==
    /\ fi' = [fi EXCEPT ![r] = pos[1]]
    /\ zi' = [zi EXCEPT ![r] = pos[2]]
    /\ UNCHANGED <<pc, resp>>

\* One step of the loops over files and archive members: open an archive,
\* skip a directory member, or run process_image on a file or a member.
Iterate(r) ==
    /\ pc[r] = "loop"
    /\ fi[r] <= Len(files[r])
    /\ LET file    == files[r][fi[r]]
           opening == IsZipName(file.filename) /\ zi[r] = 0
           member  == file.data.zip.members[zi[r]]
           name    == IF zi[r] = 0 THEN Lower(file.filename) ELSE member.filename
           data    == IF zi[r] = 0 THEN file.data ELSE member.data
           out     == process_image(data)
           next    == After(files[r], fi[r], zi[r])
       IN  IF opening \/ is_dir(name)
           THEN /\ IF opening /\ file.data.zip.bad
                   THEN Fail(r, BadZipMsg)
                   ELSE MoveTo(r, next) /\ UNCHANGED results
                /\ UNCHANGED <<calls, remote>>
           ELSE /\ calls' = [calls EXCEPT ![r] = @ + 1]
                /\ remote' = [remote EXCEPT ![r] =
                                 IF IsImage(data.mime) THEN @ + 1 ELSE @]
                /\ IF out.exc # ""
                   THEN Fail(r, out.exc)
                   ELSE /\ MoveTo(r, next)
                        /\ results' = [results EXCEPT ![r] =
                                          Collected(@, out.ret, name)]
    /\ UNCHANGED <<progress, files, th, pureVars>>

\* A handler that returns without progress_thread.join().
RespondUnjoined(r) ==
    /\ pc[r] = "loop"
    /\ fi[r] > Len(files[r])
    /\ resp' = [resp EXCEPT ![r] = FinalResponse(results[r])]
    /\ pc' = [pc EXCEPT ![r] = "done"]
    /\ UNCHANGED <<progress, files, fi, zi, results, th, calls, remote,
                   pureVars>>

\* progress_thread.join() returns once the thread has ended; then the 400
\* for no results, or the invoices.
Respond(r) ==
    /\ pc[r] = "loop"
    /\ fi[r] > Len(files[r])
    /\ th[r].st = "finished"
    /\ resp' = [resp EXCEPT ![r] = FinalResponse(results[r])]
    /\ pc' = [pc EXCEPT ![r] = "done"]
    /\ UNCHANGED <<progress, files, fi, zi, results, th, calls, remote,
                   pureVars>>

(***************************************************************************)
(* simulate_progress and get_progress.                                     *)
(***************************************************************************)
\* progress = i + 1 in place of progress = i.
AdvanceBeyond(r) ==
    /\ Alive(r)
    /\ th[r].i < Steps
    /\ th' = [th EXCEPT ![r].i = @ + 1]
    /\ progress' = th[r].i + 2
    /\ UNCHANGED <<reqVars, pureVars>>

\* progress = i, for i = 1..Steps (the sleep is the time to the next step).
Advance(r) ==
    /\ Alive(r)
    /\ th[r].i < Steps
    /\ th' = [th EXCEPT ![r].i = @ + 1]
    /\ progress' = th[r].i + 1
    /\ UNCHANGED <<reqVars, pureVars>>

\* range(1, 100) in place of range(1, 101): the thread ends one write early.
FinishEarly(r) ==
    /\ Alive(r)
    /\ th[r].i = Steps - 1
    /\ th' = [th EXCEPT ![r].st = "finished"]
    /\ UNCHANGED <<progress, reqVars, pureVars>>

\* The loop is over and the thread ends.
Finish(r) ==
    /\ Alive(r)
    /\ th[r].i = Steps
    /\ th' = [th EXCEPT ![r].st = "finished"]
    /\ UNCHANGED <<progress, reqVars, pureVars>>

\* GET /progress: jsonify({"progress": progress}), the counter as it is in
\* the state the request is served in; the handler changes nothing.
get_progress == progress

(***************************************************************************)
(* clean_empty on its own: the value it is applied to, and applied again.  *)
(***************************************************************************)
\* The depth of the values, the length of their lists and dicts, and the
\* times clean_empty is applied.
MaxDepth == 2

MaxWidth == 2

MaxCleans == 2

Scalars ==
    {PyNone, PyStr(<<>>), PyStr(<<"A1">>), PyNum(0), PyNum(7), PyBool(FALSE)}

Keys == <<"a", "b", "c", "d">>

RECURSIVE Values(_)
Values(depth) ==
    IF depth = 0 THEN Scalars \cup {PyList(<<>>), PyDict(<<>>)}
    ELSE LET below == UNION {[1..n -> Values(depth - 1)] : n \in 0..MaxWidth}
         IN  Scalars
                 \cup {PyList([i \in 1..Len(q) |-> Item(q[i])]) : q \in below}
                 \cup {PyDict([i \in 1..Len(q) |-> Entry(Keys[i], q[i])]) : q \in below}

Normalize ==
    /\ cleaned < MaxCleans
    /\ val' = clean_empty(val)
    /\ cleaned' = cleaned + 1
    /\ UNCHANGED <<progress, reqVars, th, text, parsed>>

(***************************************************************************)
(* parse_json on its own: the replies it is applied to.                    *)
(***************************************************************************)
\* The fields of the objects a reply holds.
MaxFields == 2

\* json.dumps, for the values below: the tokens of a value.
TokenOf(x) == CHOOSE tok \in StrTokens : StrOf(tok) = x

EncodeStr(chars) ==
    IF chars = <<>> THEN <<"\"\"">>
    ELSE IF Len(chars) = 1 /\ \E tok \in StrTokens : StrOf(tok) = chars[1]
    THEN <<TokenOf(chars[1])>>
    ELSE <<Quote>> \o chars \o <<Quote>>

RECURSIVE Encode(_)
RECURSIVE EncodeEntries(_, _)
Encode(v) ==
    CASE v.t = "null" -> <<"null">>
      [] v.t = "bool" -> IF v.n = 1 THEN <<"true">> ELSE <<"false">>
      [] v.t = "num"  -> IF v.n = 0 THEN <<"0">> ELSE <<"7">>
      [] v.t = "str"  -> EncodeStr(v.s)
      [] v.t = "list" -> <<"[">> \o EncodeEntries(v.kv, FALSE) \o <<"]">>
      [] v.t = "dict" -> <<"{">> \o EncodeEntries(v.kv, TRUE) \o <<"}">>

EncodeEntries(es, keyed) ==
    IF es = <<>> THEN <<>>
    ELSE (IF keyed THEN <<TokenOf(es[1].k), ":", Space>> ELSE <<>>)
             \o Encode(es[1].v)
             \o (IF Len(es) = 1 THEN <<>>
                 ELSE <<",", Space>> \o EncodeEntries(Tail(es), keyed))

\* Field values: scalars, among them a string that holds a closing brace
\* and a fence and one that holds an opening brace, and objects and lists
\* of at most one of them.
ReplyScalars ==
    {PyStr(<<"A1">>), PyStr(<<>>), PyNum(0), PyNum(7), PyNone,
     PyStr(<<"}", Fence>>), PyStr(<<"{">>)}

FieldValues ==
    ReplyScalars
        \cup {PyDict(<<>>), PyList(<<>>)}
        \cup {PyDict(<<Entry("name", x)>>) : x \in ReplyScalars}
        \cup {PyList(<<Item(x)>>) : x \in ReplyScalars}

FieldKeys == <<"vendor", "total", "invoice_no">>

\* The objects of at most MaxFields fields.
ReplyObjects ==
    {PyDict([i \in 1..Len(q) |-> Entry(FieldKeys[i], q[i])]) :
        q \in UNION {[1..n -> FieldValues] : n \in 0..MaxFields}}

\* A reply that wraps the object in a json fence, alone or within prose.
FencedAround(obj) ==
    {<<FenceJson, Space>> \o Encode(obj) \o <<Space, Fence>>,
     <<"Sure", Space, FenceJson>> \o Encode(obj) \o <<Fence, Space, "done">>}

\* A reply without the marker that holds the object as its one span.
UnfencedAround(obj) ==
    {Encode(obj), <<"Here", Space>> \o Encode(obj) \o <<Space, "done">>}

\* Unfenced replies that hold two objects side by side.
SiblingObjects ==
    {PyDict(<<>>), PyDict(<<Entry("total", PyNum(7))>>),
     PyDict(<<Entry("vendor", PyDict(<<Entry("name", PyStr(<<"A1">>))>>))>>)}

SiblingTexts ==
    {Encode(a) \o <<Space>> \o Encode(b) : a, b \in SiblingObjects}

\* Replies without a candidate span.
NoSpanTexts ==
    {<<>>, ProseReply, <<"{">>, <<"}", Space, "{">>,
     <<FenceJson, Space, Fence>>,
     <<FenceJson, Space, "note", Space, "{", "}", Space, Fence>>,
     <<FenceJson, Space, "{", "\"total\"", ":", "7", "}">>}

\* Replies whose span does not decode.
BrokenTexts ==
    {<<"{", "\"total\"", ":", "}">>,
     <<"{", "\"total\"", "7", "}">>,
     <<"{", "\"total\"", ":", "7", ",", "}">>,
     <<"{", "total", ":", "7", "}">>,
     <<"{", Quote, "total", ":", "7", "}">>,
     <<FenceJson, Space, "{", "\"total\"", ":", "}", Space, Fence>>,
     <<FenceJson, "{", "[", "}", Fence>>}

ReplyTexts ==
    UNION {FencedAround(obj) \cup UnfencedAround(obj) : obj \in ReplyObjects}
        \cup SiblingTexts \cup NoSpanTexts \cup BrokenTexts

\* data = parse_json(response.text)
Parse ==
    /\ ~parsed.done
    /\ parsed' = [done |-> TRUE, out |-> parse_json(text)]
    /\ UNCHANGED <<progress, reqVars, th, val, cleaned, text>>

(***************************************************************************)
(* The specifications.                                                     *)
(***************************************************************************)
Idle ==
    /\ progress = 0
    /\ pc = [r \in Reqs |-> "idle"]
    /\ files = [r \in Reqs |-> <<>>]
    /\ fi = [r \in Reqs |-> 0]
    /\ zi = [r \in Reqs |-> 0]
    /\ results = [r \in Reqs |-> <<>>]
    /\ resp = [r \in Reqs |-> NoResp]
    /\ th = [r \in Reqs |-> Unstarted]
    /\ calls = [r \in Reqs |-> 0]
    /\ remote = [r \in Reqs |-> 0]

\* No reply parsed yet.
Unparsed == [done |-> FALSE, out |-> Returned(PyNone)]

NoText == text = <<>> /\ parsed = Unparsed

NoValue == val = PyNone /\ cleaned = 0

Init == Idle /\ NoValue /\ NoText

\* The first upload carries any batch; a request after it carries no file.
BatchesOf(r) == IF r = 1 THEN Batches ELSE {<<>>}

Handle(r) ==
    \/ Begin(r)
    \/ Iterate(r)
    \/ Respond(r)
    \/ Advance(r)
    \/ Finish(r)

\* Requests one after the other, each sent once the one before has
\* responded: one upload of any batch, then requests without files.
Next == \E r \in Reqs : Reset(r, BatchesOf(r), TRUE) \/ Handle(r)

Spec == Init /\ [][Next]_vars

\* Uploads of small batches one after the other, each sent once the one
\* before has responded.
NextSeq == \E r \in Reqs : Reset(r, SmallBatches, TRUE) \/ Handle(r)

SpecSeq == Init /\ [][NextSeq]_vars

\* Uploads of small batches sent at any time, also while others are in
\* flight.
NextAny == \E r \in Reqs : Reset(r, SmallBatches, FALSE) \/ Handle(r)

SpecAny == Init /\ [][NextAny]_vars

\* Iterate(r) is enabled exactly inside the loop, and is the step that moves
\* the loop on or leaves it.
InLoop(r) == pc[r] = "loop" /\ fi[r] <= Len(files[r])

Iterates(r) == InLoop(r) /\ <<fi[r], zi[r], pc[r]>>' # <<fi[r], zi[r], pc[r]>>

\* WF_vars(Iterate(r)), written out.
IterateFair(r) == []<>(~InLoop(r)) \/ []<><<Iterates(r)>>_vars

\* Fair scheduling: a handler that can step does, and so does a thread
\* (every call of the handler returns or raises, as does sleep).
Fairness ==
    \A r \in Reqs :
        /\ WF_vars(Begin(r))
        /\ IterateFair(r)
        /\ WF_vars(Respond(r))
        /\ WF_vars(Advance(r) \/ Finish(r))

\* Uploads one after the other, scheduled fairly.
SpecFair == SpecSeq /\ Fairness

\* clean_empty applied to any value of the bounded depth and width.
InitNorm == Idle /\ val \in Values(MaxDepth) /\ cleaned = 0 /\ NoText

SpecNorm == InitNorm /\ [][Normalize]_vars

\* parse_json applied to any of the replies.
InitParse ==
    Idle /\ NoValue /\ text \in ReplyTexts /\ parsed = Unparsed

SpecParse == InitParse /\ [][Parse]_vars

(***************************************************************************)
(* What a batch holds, read off the request alone.                         *)
(***************************************************************************)
\* The items of a file in processing order, each with the name its record
\* would get: the file itself, or the members of an archive that are no
\* directories; none for a file named as an archive that is none.
ItemsOfFile(file) ==
    IF ~IsZipName(file.filename)
    THEN <<[name |-> Lower(file.filename), data |-> file.data]>>
    ELSE IF file.data.zip.bad THEN <<>>
    ELSE LET ms == SelectSeq(file.data.zip.members,
                             LAMBDA m : ~is_dir(m.filename))
         IN  [i \in 1..Len(ms) |-> [name |-> ms[i].filename, data |-> ms[i].data]]

RECURSIVE ItemsOf(_)
ItemsOf(list) ==
    IF list = <<>> THEN <<>>
    ELSE ItemsOfFile(Head(list)) \o ItemsOf(Tail(list))

\* The remote call raises on this item.
RaisesOn(item) == IsImage(item.data.mime) /\ item.data.model.raises

\* The item fails MIME validation, or the model's reply to it does not parse.
FailsValidation(item) ==
    \/ ~IsImage(item.data.mime)
    \/ ~item.data.model.raises
          /\ parse_json(ReplyText(item.data.model.reply)).ret = PyNone

\* The item passes the MIME gate and the reply to it parses to an object.
ParsesToObject(item) ==
    /\ IsImage(item.data.mime)
    /\ ~item.data.model.raises
    /\ parse_json(ReplyText(item.data.model.reply)).ret.t = "dict"

\* The extraction of the item returns a record (an object that has fields).
YieldsRecord(item) ==
    LET out == process_image(item.data)
    IN  out.exc = "" /\ out.ret.t = "dict" /\ out.ret.kv # <<>>

RecordOf(item) ==
    SetKey(process_image(item.data).ret, "filename", PyStr(item.name))

RecordsOf(items) ==
    LET kept == SelectSeq(items, YieldsRecord)
    IN  [i \in 1..Len(kept) |-> RecordOf(kept[i])]

\* The message of the first fatal error of a batch (a corrupt archive, a
\* remote call that raises), "" if it has none.
FatalOfFile(file) ==
    IF IsZipName(file.filename) /\ file.data.zip.bad THEN BadZipMsg
    ELSE LET bad == SelectSeq(ItemsOfFile(file), RaisesOn)
         IN  IF bad = <<>> THEN "" ELSE bad[1].data.model.msg

RECURSIVE FirstFatal(_)
FirstFatal(list) ==
    IF list = <<>> THEN ""
    ELSE IF FatalOfFile(Head(list)) # "" THEN FatalOfFile(Head(list))
    ELSE FirstFatal(Tail(list))

FilenamesOf(records) ==
    [i \in 1..Len(records) |-> GetKey(records[i], "filename").s]

Responded(r) == pc[r] = "done"

(***************************************************************************)
(* The claims.                                                             *)
(***************************************************************************)
\* C1: while an upload is in flight and no other upload runs beside it,
\* the counter GET /progress reads never goes down: from the reset to the
\* response, every read returns at least what the read before it returned.
C1_ReadsNonDecreasing ==
    [][\A r \in Reqs :
          InFlight(r) /\ InFlight(r)' => get_progress' >= get_progress]_vars

\* C2: an upload that started its advance thread responds, whatever the
\* status, only once that thread has written all its steps, so that the
\* counter is 100 in the state the response is given in.
C2_JoinedBeforeResponse ==
    [][\A r \in Reqs :
          ~Responded(r) /\ Responded(r)' /\ th'[r] # Unstarted =>
              /\ th'[r].st = "finished"
              /\ th'[r].i = Steps
              /\ get_progress' = Steps]_vars

\* C3: the records of a 200 response are in processing order: their
\* filenames are, in order, those of the items that yield a record, files in
\* upload order and the members of an archive, in listing order, at the
\* place of the archive.
C3_ProcessingOrder ==
    \A r \in Reqs :
        resp[r].status = 200 =>
            FilenamesOf(resp[r].invoices) =
                FilenamesOf(RecordsOf(ItemsOf(files[r])))

\* A 200 response of two records or more under different names, one of
\* them of a member of an archive.
C3_Witness ==
    \E r \in Reqs :
        /\ resp[r].status = 200
        /\ Len(resp[r].invoices) >= 2
        /\ \E f \in 1..Len(files[r]) :
              /\ IsZipName(files[r][f].filename)
              /\ ~files[r][f].data.zip.bad
              /\ files[r][f].data.zip.members # <<>>
        /\ GetKey(resp[r].invoices[1], "filename")
              # GetKey(resp[r].invoices[2], "filename")

\* C4: an item that fails validation adds nothing to the results and does
\* not stop the batch: the results are exactly the records of the items
\* extracted so far that returned one, only a fatal error ends a batch
\* early, and a batch that ends without one has extracted every item.
C4_FailedItemSkipped ==
    \A r \in Reqs :
        pc[r] \in {"loop", "done"} /\ files[r] # <<>> =>
            LET items == ItemsOf(files[r])
            IN  /\ calls[r] <= Len(items)
                /\ results[r] = RecordsOf(SubSeq(items, 1, calls[r]))
                /\ resp[r].status = 500 => FirstFatal(files[r]) # ""
                /\ Responded(r) /\ resp[r].status # 500 => calls[r] = Len(items)

\* A batch that went on to the end, a record taken after an item that
\* failed validation.
C4_Witness ==
    \E r \in Reqs :
        /\ Responded(r)
        /\ resp[r].status = 200
        /\ LET items == ItemsOf(files[r])
           IN  \E i, j \in 1..Len(items) :
                  i < j /\ FailsValidation(items[i]) /\ YieldsRecord(items[j])

\* C5: a batch in which the remote call raises or an archive is corrupt
\* ends with status 500 and the message, and returns no record.
C5_FatalAborts ==
    \A r \in Reqs :
        Responded(r) /\ FirstFatal(files[r]) # "" =>
            /\ resp[r].status = 500
            /\ resp[r].error = <<"Invoice processing failed: ", FirstFatal(files[r])>>
            /\ resp[r].invoices = <<>>

\* A 500 after a record had been extracted.
C5_Witness ==
    \E r \in Reqs :
        Responded(r) /\ resp[r].status = 500 /\ results[r] # <<>>

\* C6: with files uploaded, no fatal error and every item failing
\* validation, the response is the 400 "No valid images found to process";
\* that response is given neither to a request without files nor to a batch
\* an item of which yielded a record.
C6_NoValidImages ==
    \A r \in Reqs :
        Responded(r) =>
            LET items == ItemsOf(files[r])
            IN  /\ (/\ files[r] # <<>>
                    /\ FirstFatal(files[r]) = ""
                    /\ \A i \in 1..Len(items) : FailsValidation(items[i]))
                      => resp[r] = NoValidResponse
                /\ resp[r] = NoValidResponse =>
                      /\ files[r] # <<>>
                      /\ \A i \in 1..Len(items) : ~YieldsRecord(items[i])

\* The 400 for a batch of an item that is no image and one whose reply does
\* not parse.
C6_Witness ==
    \E r \in Reqs :
        /\ resp[r] = NoValidResponse
        /\ LET items == ItemsOf(files[r])
           IN  \E i, j \in 1..Len(items) :
                  /\ ~IsImage(items[i].data.mime)
                  /\ IsImage(items[j].data.mime)
                  /\ FailsValidation(items[j])

\* The steps of a request that carries no file.
NoFilesStep(r) == files'[r] = <<>> /\ pc'[r] # pc[r]

\* C7 as claimed: a request without files responds 400 "No files uploaded",
\* starts no advance thread, extracts nothing, and leaves the counter as it
\* was.
C7_CounterUntouched ==
    [][\A r \in Reqs :
          NoFilesStep(r) =>
              /\ th'[r] = Unstarted
              /\ calls'[r] = 0
              /\ Responded(r)' => resp'[r] = NoFilesResponse
              /\ progress' = progress]_vars

\* C7, amended: a request without files responds 400 "No files uploaded",
\* starts no advance thread and extracts nothing; its one write to the
\* counter is the reset to 0 the handler starts with, before it looks at
\* the files.
C7_ResetOnly ==
    [][\A r \in Reqs :
          NoFilesStep(r) =>
              /\ th'[r] = Unstarted
              /\ calls'[r] = 0
              /\ remote'[r] = 0
              /\ IF pc[r] = "idle"
                 THEN progress' = 0 /\ ~Responded(r)'
                 ELSE /\ progress' = progress
                      /\ Responded(r)'
                      /\ resp'[r] = NoFilesResponse]_vars

\* A request without files has been answered after an upload had advanced
\* the counter.
C7_Witness ==
    \E r, q \in Reqs :
        /\ resp[r] = NoFilesResponse
        /\ files[r] = <<>>
        /\ th[q].i > 0

\* A value the normalizer is to drop: "", null, [], {} or the number 0.
IsEmptyValue(v) ==
    \/ v.t = "str" /\ v.s = <<>>
    \/ v.t = "null"
    \/ v.t \in {"list", "dict"} /\ v.kv = <<>>
    \/ v.t = "num" /\ v.n = 0

\* No key of a mapping and no element of a list, at any depth, holds a
\* value to drop.
RECURSIVE Pruned(_)
Pruned(v) ==
    v.t \in {"list", "dict"} =>
        \A i \in 1..Len(v.kv) :
            ~IsEmptyValue(v.kv[i].v) /\ Pruned(v.kv[i].v)

\* C8: the pruning law: the output of the Field Normalizer holds, at every
\* depth, no key and no list element whose value is "", null, [], {} or 0,
\* values that became empty by the pruning of their children included.
C8_PruningLaw == cleaned >= 1 => Pruned(val)

\* C9: the Field Normalizer is idempotent: applied to its own output, it
\* returns that output.
C9_Idempotent == [][cleaned = 1 => val' = val]_vars

\* The items of a batch the reply to which parses to a JSON object.
ObjectItems(list) == SelectSeq(ItemsOf(list), ParsesToObject)

\* C10: a batch that ends without a fatal error holds a record for every
\* item that passes the MIME gate and whose reply parses to a JSON object,
\* and every record of a 200 response has a timestamp and a filename.
C10_RecordPerParsedItem ==
    \A r \in Reqs :
        Responded(r) /\ files[r] # <<>> /\ resp[r].status # 500 =>
            /\ Len(results[r]) = Len(ObjectItems(files[r]))
            /\ resp[r].status = 200 =>
                  \A i \in 1..Len(resp[r].invoices) :
                      /\ HasKey(resp[r].invoices[i], "timestamp")
                      /\ HasKey(resp[r].invoices[i], "filename")

\* filename.lower().endswith('.zip'), said of the letters one by one.
EndsInZipAnyCase(name) ==
    /\ Len(name) >= 4
    /\ name[Len(name) - 3] = "."
    /\ name[Len(name) - 2] \in {"z", "Z"}
    /\ name[Len(name) - 1] \in {"i", "I"}
    /\ name[Len(name)] \in {"p", "P"}

\* The members of an archive that are no directories.
FileMembers(file) ==
    SelectSeq(file.data.zip.members,
              LAMBDA m : m.filename[Len(m.filename)] # "/")

\* The extractions a file is due: one for each member that is no directory
\* if it is named as an archive, one if it is not.
Extractions(file) ==
    IF EndsInZipAnyCase(file.filename) THEN Len(FileMembers(file)) ELSE 1

RECURSIVE TotalExtractions(_)
TotalExtractions(list) ==
    IF list = <<>> THEN 0
    ELSE Extractions(Head(list)) + TotalExtractions(Tail(list))

\* The names the records of a file may carry: the names of its members as
\* the archive lists them, or its own name in lower case.
RecordNames(file) ==
    IF EndsInZipAnyCase(file.filename)
    THEN {FileMembers(file)[i].filename : i \in 1..Len(FileMembers(file))}
    ELSE {Lower(file.filename)}

C12_RoundTrip ==
    parsed.done =>
        \A obj \in ReplyObjects :
            text \in FencedAround(obj) \cup UnfencedAround(obj) =>
                parsed.out = Returned(obj)

\* C13: parse_json never raises: it returns None or an object, and None for
\* a text without a candidate span, for a span that does not decode, and
\* for an unfenced text of two sibling objects, which the greedy match
\* takes as one span.
C13_NeverRaises ==
    parsed.done =>
        /\ parsed.out.exc = ""
        /\ parsed.out.ret.t \in {"null", "dict"}
        /\ text \in NoSpanTexts \cup BrokenTexts \cup SiblingTexts =>
              parsed.out.ret = PyNone

\* Two sibling objects with fields, parsed to None.
C13_Witness ==
    /\ parsed.done
    /\ text \in SiblingTexts
    /\ Len(text) > 5
    /\ parsed.out = Returned(PyNone)

\* C14: when every upload is sent only after the one before it has
\* responded, whatever the status, at most one advance thread is alive and
\* writing the counter at any time.
C14_OneAdvancer == Cardinality({r \in Reqs : Alive(r)}) <= 1

\* The items extracted so far whose bytes are sniffed as an image.
ImagesAmong(items) ==
    SelectSeq(items, LAMBDA item : item.data.mime[1] = "image")

\* C16: the remote model is called only for bytes sniffed as an image: at
\* every point of a batch the remote calls made are as many as the image
\* items among the items extracted so far, an item that is no image having
\* returned None without a call.
C16_RemoteOnlyForImages ==
    \A r \in Reqs :
        pc[r] \in {"loop", "done"} /\ files[r] # <<>> =>
            /\ calls[r] <= Len(ItemsOf(files[r]))
            /\ remote[r]
                  = Len(ImagesAmong(SubSeq(ItemsOf(files[r]), 1, calls[r])))

\* A batch of an item that is no image and of images, answered with fewer
\* remote calls than extractions.
C16_Witness ==
    \E r \in Reqs :
        /\ Responded(r)
        /\ resp[r].status # 500
        /\ remote[r] >= 1
        /\ remote[r] < calls[r]

\* C15: in every reachable state, however uploads, advance threads and
\* reads interleave, the counter is an integer from 0 to 100, and so is
\* what GET /progress returns.
C15_CounterInRange == get_progress \in 0..Steps

\* Two uploads in flight with both their advance threads alive, the counter
\* at 100.
C15_Witness ==
    \E r, q \in Reqs :
        /\ r # q
        /\ InFlight(r) /\ InFlight(q)
        /\ Alive(r) /\ Alive(q)
        /\ get_progress = Steps

\* The step is the response of upload r after its join.
RespondsJoined(r) ==
    pc[r] = "loop" /\ pc'[r] = "done" /\ resp'[r].status # 500

\* C17: uploads that run together race on the one counter.  The counter
\* goes down only when an upload arrives and resets it or when a thread
\* writes below what another thread has written, and an upload that has
\* joined its thread responds with the counter below 100 only when the
\* counter holds another upload's reset or the write of another upload's
\* running thread; both happen (the witness).
C17_RaceOnSharedCounter ==
    [][/\ get_progress' < get_progress =>
              \/ \E r \in Reqs : pc[r] = "idle" /\ pc'[r] = "check"
              \/ \E r, q \in Reqs :
                    /\ r # q
                    /\ th'[r].i # th[r].i
                    /\ th[q].i > th'[r].i
       /\ \A r \in Reqs :
              RespondsJoined(r) /\ get_progress' < Steps =>
                  \/ get_progress' = 0
                  \/ \E q \in Reqs :
                        q # r /\ Alive(q) /\ th[q].i = get_progress']_vars

\* Upload r has joined its thread, which wrote 100 last, and has only its
\* response left to give, while upload q is in flight and the counter is
\* below 100: a read now returns less than a read after r's last write, and
\* r responds with the counter below 100.
C17_Witness ==
    \E r, q \in Reqs :
        /\ r # q
        /\ pc[r] = "loop"
        /\ fi[r] > Len(files[r])
        /\ th[r].st = "finished"
        /\ th[r].i = Steps
        /\ InFlight(q)
        /\ get_progress < Steps

\* C18: with fair scheduling and remote calls that return or raise, every
\* started advance thread ends, after the 100 writes 1, 2, .., 100 in this
\* order, and every upload responds, once, with status 200, 400 or 500.
C18_Terminates ==
    /\ \A r \in Reqs : (pc[r] = "check") ~> Responded(r)
    /\ \A r \in Reqs : Alive(r) ~> (th[r].st = "finished")
    /\ [](\A r \in Reqs :
             /\ Responded(r) => resp[r].status \in {200, 400, 500}
             /\ th[r].st = "finished" => th[r].i = Steps)
    /\ [][\A r \in Reqs :
             /\ th'[r].i # th[r].i =>
                   th'[r].i = th[r].i + 1 /\ get_progress' = th'[r].i
             /\ Responded(r) => resp'[r] = resp[r]]_vars

\* An upload has responded 500 and its thread has ended after its write of
\* 100, beside an upload that has responded 200.
C18_Witness ==
    \E r, q \in Reqs :
        /\ Responded(r) /\ resp[r].status = 500
        /\ th[r].st = "finished" /\ th[r].i = Steps
        /\ Responded(q) /\ resp[q].status = 200
        /\ th[q].st = "finished"

====
